---- MODULE Spec2Model ----
(***************************************************************************)
(* Concurrent execution orchestrator of testkube:                          *)
(*   - ExecuteTestsHandler   internal/app/api/v1/executions.go:40-129      *)
(*   - prepareTestRequests   internal/app/api/v1/executions.go:131-142     *)
(*   - executeTest           internal/app/api/v1/executions.go:144-240     *)
(*   - notifyEvents          internal/app/api/v1/executions.go:242-260     *)
(* The worker pool (pkg/workerpool), the execution store, the executor     *)
(* adapters and the Err/Errw/IsFailed helpers of the result model are not  *)
(* part of the sources at hand; they follow the written design             *)
(* (sections 4.1, 4.2, 3 and 6 of the specification).                      *)
(***************************************************************************)
EXTENDS Integers, Sequences, FiniteSets, TLC

\* ------------------------------------------------------------------ bounds
NumTests == 3
MaxConcurrency == 2
MaxQueueCap == 2
MaxFaults == 2
MaxBatchFaults == 1
MaxTime == 4
MaxLines == 3
MaxSteps == 2
MinConcurrency == 0 - 1
LogsCap == 1

\* executions.go:36  defaultConcurrencyLevel = "10"
defaultConcurrencyLevel == 10

VARIABLES
    tests,      \* TestsClient: test name -> [schedule]    (test custom resources)
    request,    \* request id -> the HTTP request (body, params, query string)
    storage,    \* ExecutionResults: execution id -> stored execution record
    writes,     \* per execution id, the writes made to the store, in order
    cron,       \* CronJobClient: test name -> number of successful Apply calls
    h,          \* per request, the state of ExecuteTestsHandler
    pool,       \* per request, the worker pool created at executions.go:109
    job,        \* per pool job <<request, test>>, the state of executeTest
    faults,     \* number of collaborator failures so far (bounded by MaxFaults)
    sinks,      \* WebhooksClient, EventsEmitter and the slack notifier
    call,       \* one call of a function of the result model: inputs and output
    stream      \* one call of ExecutionLogsHandler: the log channel and the body written

vars == <<tests, request, storage, writes, cron, h, pool, job, faults, sinks, call, stream>>

\* ------------------------------------------------------------ result model
TestNames == 1..NumTests

NoName == <<>>
GivenName == <<"n1">>
\* rand.Name() at executions.go:149: a fresh name, distinct per call
RandName(j) == <<"rand", j[1], j[2]>>

NoId == <<>>
\* primitive.NewObjectID() inside testkube.NewExecution: a fresh id per call
NewId(j) == <<"id", j[1], j[2]>>
OldId(t) == <<"old", t>>

ExecutionStatusQueued == "queued"
ExecutionStatusPending == "pending"
ExecutionStatusRunning == "running"
ExecutionStatusSuccess == "success"
ExecutionStatusError == "error"
NoStatus == "nil"

\* zero value of testkube.Execution (what a failed lookup leaves in `execution`)
ZeroExecution ==
    [id |-> NoId, name |-> NoName, testName |-> 0, status |-> NoStatus,
     errorMessage |-> "", cause |-> "", started |-> FALSE]

\* the value of a Go error variable: nil, or the failure it reports
NilError == "nil"

\* Execution.Err / Execution.Errw(format, err): the execution with an Error
\* result whose message is the format with the text of err in the place of %w
\* (`cause`; empty for Err, whose message is whole)
Errw(e, msg, err) ==
    [e EXCEPT !.status = ExecutionStatusError, !.errorMessage = msg, !.cause = err]

\* ExecutionResult.IsFailed: status = Error or error message non-empty
IsFailed(e) == e.status = ExecutionStatusError \/ e.errorMessage # ""

\* (variant: a running execution counts as completed)
IsCompletedOrRunning(status) ==
    status \in {ExecutionStatusSuccess, ExecutionStatusError, ExecutionStatusRunning}

\* IsCompleted: *e.Status == *TestStatusError || *e.Status == *TestStatusSuccess
IsCompleted(status) == status = ExecutionStatusError \/ status = ExecutionStatusSuccess

\* time.Time values: the zero Time (an unset timestamp) and the instants the
\* clock gives, counted from the Unix epoch
ZeroTime == 0 - 1
Instants == 1..MaxTime
Times == {ZeroTime} \cup Instants

\* Time.UnixNano(): negative for the zero Time (January 1 of year 1 is out of
\* the range of int64 nanoseconds and comes out as -6795364578871345152)
UnixNano(t) == t

\* the largest time.Duration; Time.Sub saturates at it, and more than 292
\* years lie between the zero Time and any instant of the clock
MaxDuration == MaxTime + 2

\* Time.Sub(u)
Sub(t, u) ==
    IF t = ZeroTime /\ u # ZeroTime THEN 0 - MaxDuration
    ELSE IF t # ZeroTime /\ u = ZeroTime THEN MaxDuration
    ELSE t - u

\* (variant: the end time is not looked at)
CalculateDurationToNow(start, end, now) ==
    IF UnixNano(start) <= 0 THEN 0 ELSE Sub(now, start)

\* TestExecution.CalculateDuration, with time.Now() = now
CalculateDuration(start, end, now) ==
    IF UnixNano(start) <= 0 /\ UnixNano(end) <= 0 THEN 0
    ELSE LET end1 == IF UnixNano(end) <= 0 THEN now ELSE end
         IN  Sub(end1, start)

\* a Go map of parameters: nil, or keys with their values
NilMap == [nil |-> TRUE, kv |-> <<>>]
MakeMap(kv) == [nil |-> FALSE, kv |-> kv]
ParamKeys == {"k1", "k2"}
ParamValues == {"a", "b"}
ParamMaps ==
    {NilMap} \cup {MakeMap(kv) : kv \in UNION {[K -> ParamValues] : K \in SUBSET ParamKeys}}
Keys(m) == DOMAIN m.kv

\* (variant: a key the test has keeps the test's value)
mergeParamsKeepingFirst(params, appendParams) ==
    MakeMap([k \in Keys(params) \cup Keys(appendParams) |->
                IF k \in Keys(params) THEN params.kv[k] ELSE appendParams.kv[k]])

\* executions.go:466-476  mergeParams: params (made if nil) with every key of
\* appendParams set to its value there
mergeParams(params, appendParams) ==
    MakeMap([k \in Keys(params) \cup Keys(appendParams) |->
                IF k \in Keys(appendParams) THEN appendParams.kv[k] ELSE params.kv[k]])

\* executions.go:467-473  what mergeParams leaves in the caller's two maps: a
\* nil params is replaced in the local variable only; a params that is not
\* nil is the map the loop writes into; appendParams is only read
mergeParamsLeaves(params, appendParams) ==
    <<IF params.nil THEN params ELSE mergeParams(params, appendParams), appendParams>>

\* output.Output values a backend sends as log lines
Lines == {"l1", "l2"}

\* encoding/json of one output.Output
JSONOf(out) ==
    IF out = "l1" THEN "{\"type\":\"line\",\"content\":\"l1\"}"
    ELSE "{\"type\":\"line\",\"content\":\"l2\"}"

\* (variant: the encoder does not end the value with a newline)
EncodeBare(out) == <<JSONOf(out)>>

\* json.Encoder.Encode: the JSON encoding of the value, followed by a newline
Encode(out) == <<JSONOf(out), "\n">>

\* executions.go:337-349  the body of the loop over the log channel: what one
\* log line adds to the response body
Chunk(out) == <<"data: ">> \o Encode(out) \o <<"\n">>

\* no log stream is open
NoStream ==
    [pc |-> "none", logsErr |-> FALSE, toSend |-> <<>>, chan |-> <<>>,
     closed |-> FALSE, received |-> <<>>, w |-> <<>>, flushed |-> 0]

\* TestStep.Type(): the kind of a step
TestStepTypeExecuteScript == "executeScript"
TestStepTypeDelay == "delay"
NoStepType == "none"

\* the nested execution of a step result: the pointers Execution,
\* Execution.ExecutionResult and Execution.ExecutionResult.Status, each nil or set
NoExecution ==
    [present |-> FALSE, id |-> "", hasResult |-> FALSE, hasStatus |-> FALSE,
     status |-> "", errorMessage |-> ""]
StepExecutions ==
    {NoExecution,
     [NoExecution EXCEPT !.present = TRUE, !.id = "e1"],
     [NoExecution EXCEPT !.present = TRUE, !.id = "e1", !.hasResult = TRUE,
                         !.errorMessage = "boom"],
     [NoExecution EXCEPT !.present = TRUE, !.id = "e1", !.hasResult = TRUE,
                         !.hasStatus = TRUE, !.status = ExecutionStatusSuccess],
     [NoExecution EXCEPT !.present = TRUE, !.id = "e1", !.hasResult = TRUE,
                         !.hasStatus = TRUE, !.status = ExecutionStatusError,
                         !.errorMessage = "boom"]}

\* the steps of a test: a kind and a name
TestSteps ==
    [kind : {TestStepTypeExecuteScript, TestStepTypeDelay, NoStepType},
     name : {"s1", "s2"}]

\* TestStep.FullName()
FullName(step) == step.name

\* the step results an execution can hold
StepResults == [step : TestSteps, execution : StepExecutions]

\* part_001:57-60  the status column of a row
RowStatus(sr) ==
    IF sr.execution.present /\ sr.execution.hasResult /\ sr.execution.hasStatus
      THEN sr.execution.status
      ELSE "no-execution-result"

\* (variant: the id and the error message are read whenever there is an execution)
ScriptRowOfExecution(sr) ==
    <<RowStatus(sr), FullName(sr.step),
      IF sr.execution.present THEN sr.execution.id ELSE "",
      IF sr.execution.present THEN sr.execution.errorMessage ELSE "">>

\* part_001:63-70  the row of an ExecuteScript step
ScriptRow(sr) ==
    LET found == sr.execution.present /\ sr.execution.hasResult
    IN  <<RowStatus(sr), FullName(sr.step),
          IF found THEN sr.execution.id ELSE "",
          IF found THEN sr.execution.errorMessage ELSE "">>

\* part_001:71-73  the row of a Delay step
DelayRow(sr) == <<RowStatus(sr), FullName(sr.step), "", "">>

RECURSIVE Table(_)
\* part_001:52-78  TestExecution.Table: the rows, one loop round per step result
Table(stepResults) ==
    IF stepResults = <<>> THEN <<>>
    ELSE LET sr == Head(stepResults)
             rows == IF sr.step.kind = TestStepTypeExecuteScript THEN <<ScriptRow(sr)>>
                     ELSE IF sr.step.kind = TestStepTypeDelay THEN <<DelayRow(sr)>>
                     ELSE <<>>
         IN  rows \o Table(Tail(stepResults))

\* NewTestStepQueuedResult(&step): a queued result for the step
NewTestStepQueuedResult(step) == [step |-> step, status |-> ExecutionStatusQueued]

\* (variant: the After steps are put before the Steps)
StepsOfTestAfterFirst(test) == (test.before \o test.after) \o test.steps

\* part_001:22-23  steps := append(test.Before, test.Steps...), then test.After
StepsOfTest(test) == (test.before \o test.steps) \o test.after

\* part_001:11-30  NewStartedTestExecution
NewStartedTestExecution(test) ==
    [status |-> ExecutionStatusPending,
     stepResults |-> [k \in 1..Len(StepsOfTest(test)) |->
                        NewTestStepQueuedResult(StepsOfTest(test)[k])]]

\* no function of the result model is being called
\* (after: the arguments as the caller holds them once the call has returned)
NoCall == [fn |-> "none", args |-> <<>>, returned |-> FALSE, out |-> <<>>, after |-> <<>>]

\* newExecutionFromExecutionOptions, executions.go:478-494
newExecutionFromExecutionOptions(j, name) ==
    [id |-> NewId(j), name |-> name, testName |-> j[2],
     status |-> ExecutionStatusPending, errorMessage |-> "", cause |-> "",
     started |-> FALSE]

\* --------------------------------------------------------- execution store
\* (variant: the lookup matches the name alone, across tests)
GetByNameAnyTest(st, name, test) ==
    LET hits == {i \in DOMAIN st : st[i].name = name}
    IN  IF hits = {} THEN ZeroExecution ELSE st[CHOOSE i \in hits : TRUE]

\* getByNameAndTest(name, test): the stored execution, or the zero value
GetByNameAndTest(st, name, test) ==
    LET hits == {i \in DOMAIN st : st[i].name = name /\ st[i].testName = test}
    IN  IF hits = {} THEN ZeroExecution ELSE st[CHOOSE i \in hits : TRUE]

\* (variant: insert does not look at the records already stored)
InsertAlways(st, e) == TRUE

\* insert(execution) fails if (test, name) already exists
InsertAllowed(st, e) ==
    \A i \in DOMAIN st : ~(st[i].name = e.name /\ st[i].testName = e.testName)

\* markStarted(id, time): the execution is marked Running, with its start time
StartExecution(rec) == [rec EXCEPT !.started = TRUE, !.status = ExecutionStatusRunning]

\* updateResult(id, result)
UpdateResult(rec, result) ==
    [rec EXCEPT !.status = result.status, !.errorMessage = result.errorMessage,
                !.cause = ""]

Put(f, k, v) == [x \in DOMAIN f \cup {k} |-> IF x = k THEN v ELSE f[x]]

Logged(wr, id, op, by, status) ==
    Put(wr, id,
        (IF id \in DOMAIN wr THEN wr[id] ELSE <<>>)
            \o <<[op |-> op, by |-> by, status |-> status]>>)

\* ------------------------------------------------------------ executeTest
\* Local state of one call of executeTest (one pool job).
NewJob ==
    [pc |-> "new", name |-> NoName, execution |-> ZeroExecution,
     hasSecrets |-> FALSE, result |-> [status |-> NoStatus, errorMessage |-> ""],
     err |-> FALSE, nerr |-> NilError, retErr |-> FALSE, events |-> <<>>,
     dispatched |-> 0,
     metric |-> 0, trace |-> <<>>, answers |-> <<>>]

WebhookTypeStartTest == "start-test"
WebhookTypeEndTest == "end-test"

\* the sinks with every collaborator of notifyEvents answering: one webhook
\* subscribed to the start of a test, two to its end
HealthySinks ==
    [lookup |-> "ok", emitter |-> "ok", slack |-> "ok",
     webhooks |-> [k \in {WebhookTypeStartTest, WebhookTypeEndTest} |->
                    IF k = WebhookTypeStartTest THEN <<"w1">> ELSE <<"w1", "w2">>]]

\* executions.go:243-246, 258: notifySlack is reached only past the early
\* return on a GetByEvent error
SlackNotified(sk) == sk.lookup = "ok"

\* executions.go:242-260  err = s.notifyEvents(kind, execution): GetByEvent,
\* one EventsEmitter.Notify per webhook of the list, then notifySlack (whose
\* failure is logged); the deliveries attempted are recorded in the job's event
\* list and the returned error in the caller's `err` (nerr), which the caller
\* logs (executions.go:176-179, 182-185, 192-195, 212-215, 226-229, 234-237).
notifyEvents(js, sk, kind) ==
    [js EXCEPT !.events = Append(@,
                    [kind |-> kind,
                     webhooks |-> IF sk.lookup = "ok" THEN sk.webhooks[kind] ELSE <<>>,
                     slack |-> SlackNotified(sk)]),
               !.nerr = IF sk.lookup = "ok" THEN NilError ELSE "webhooks",
               !.trace = Append(@, IF kind = WebhookTypeStartTest THEN "started-event"
                                   ELSE "ended-event")]

\* (variant: the error of a failed execution is returned beside the execution)
ReturnWithError(js, e) ==
    [js EXCEPT !.pc = "return", !.execution = e, !.retErr = IsFailed(e)]

\* every `return ..., nil` of executeTest: the job ends with this execution
\* and a nil error
Return(js, e) == [js EXCEPT !.pc = "return", !.execution = e, !.retErr = FALSE]

\* executions.go:148-150
RequestName(req, j) == IF req.name = NoName THEN RandName(j) ELSE req.name

\* (variant: the name found is not compared)
AlreadyExistsIgnored(found, name) == FALSE

\* executions.go:154  execution.Name == request.Name
AlreadyExists(found, name) == found.name = name

\* (variant: the stored execution is returned as it is)
DuplicateOutcomeUnmarked(found) == found

\* executions.go:155
DuplicateOutcome(found) == Errw(found, "test execution already exists", "")

\* executions.go:148-166: name, uniqueness check, execute options, new execution.
\* ans: "ok" | "lookupError" (GetByNameAndTest fails, error ignored at :153)
\*      | "optionsError" (GetExecuteOptions fails)
executeCheck(js, w, j, req, ans) ==
    LET name == RequestName(req, j)
        found == IF ans = "lookupError" THEN ZeroExecution
                 ELSE GetByNameAndTest(w.st, name, j[2])
        js1 == [js EXCEPT !.name = name, !.trace = @ \o <<"check">>]
    IN  IF AlreadyExists(found, name)
          THEN [js |-> Return(js1, DuplicateOutcome(found)), w |-> w]
        ELSE IF ans = "optionsError"
          THEN [js |-> Return(js1, Errw(found, "can't create valid execution options", "options")),
                w |-> w]
        ELSE [js |-> [js1 EXCEPT !.pc = "insert",
                                 !.execution = newExecutionFromExecutionOptions(j, name)],
              w |-> w]

\* executions.go:168-179: Insert, Start(), "test started" event.
\* ans: "ok" | "storageError"
executeInsert(js, w, j, req, ans) ==
    LET e == js.execution
        js1 == [js EXCEPT !.trace = @ \o <<"insert">>]
    IN  IF ans = "storageError" \/ ~InsertAllowed(w.st, e)
          THEN [js |-> Return(js1, Errw(e, "can't create new test execution, can't insert into storage",
                                       "storage")),
                w |-> w]
        ELSE [js |-> notifyEvents(
                        [js1 EXCEPT !.pc = "start", !.execution.started = TRUE],
                        w.sk, WebhookTypeStartTest),
              w |-> [w EXCEPT !.st = Put(w.st, e.id, e),
                              !.wr = Logged(w.wr, e.id, "Insert", j, e.status)]]

\* executions.go:182, 192, 226  err = s.notifyEvents(...): `err`, which held
\* the error of the failed call, now holds what notifyEvents returned, and the
\* Errw that follows wraps that
ErrAfterNotify(js, err) == js.nerr

\* (variant: HasSecrets keeps the value set before the lookup)
HasSecretsAssumed(ans) == TRUE

\* executions.go:189-199: options.HasSecrets is set, then cleared when the
\* lookup of the test's secret answers not-found
HasSecrets(ans) == ans # "secretNotFound"

\* executions.go:180-200: StartExecution, secret probe.
\* ans: "ok" (secret found) | "secretNotFound" | "secretError" | "storageError"
executeStart(js, w, j, req, ans) ==
    LET e == js.execution
        js1 == [js EXCEPT !.trace = @ \o <<"start">>]
        w1 == [w EXCEPT !.st = [w.st EXCEPT ![e.id] = StartExecution(@)],
                        !.wr = Logged(w.wr, e.id, "StartExecution", j,
                                      StartExecution(w.st[e.id]).status)]
        n1 == notifyEvents(js1, w.sk, WebhookTypeEndTest)
        n2 == notifyEvents([js1 EXCEPT !.trace = @ \o <<"secret">>], w.sk,
                           WebhookTypeEndTest)
    IN  IF ans = "storageError"
          THEN [js |-> Return(n1, Errw(e, "can't execute test, can't insert into storage error",
                                       ErrAfterNotify(n1, "storage"))),
                w |-> w]
        ELSE IF ans = "secretError"
          THEN [js |-> Return(n2, Errw(e, "can't get secrets",
                                       ErrAfterNotify(n2, "secret"))),
                w |-> w1]
        ELSE [js |-> [js1 EXCEPT !.pc = "dispatch", !.hasSecrets = HasSecrets(ans),
                                 !.trace = @ \o <<"secret">>],
              w |-> w1]

\* Executor.Execute / Executor.ExecuteSync: what the adapter hands back.
\* ans: "ok" | "failed" (backend-reported failure) | "dispatchError"
ExecutorResult(sync, ans) ==
    IF ans = "dispatchError"
      THEN [status |-> ExecutionStatusError, errorMessage |-> "dispatch failed"]
    ELSE IF ans = "failed"
      THEN [status |-> ExecutionStatusError, errorMessage |-> "backend reported failure"]
    ELSE IF sync
      THEN [status |-> ExecutionStatusSuccess, errorMessage |-> ""]
    ELSE [status |-> ExecutionStatusRunning, errorMessage |-> ""]

\* executions.go:202-209: sync or async dispatch per options.Sync
executeDispatch(js, w, j, req, ans) ==
    [js |-> [js EXCEPT !.pc = "update",
                       !.result = ExecutorResult(req.sync, ans),
                       !.err = (ans = "dispatchError"),
                       !.dispatched = @ + 1,
                       !.trace = @ \o <<IF req.sync THEN "ExecuteSync" ELSE "Execute">>],
     w |-> w]

\* (variant: a fresh pending result is stored in place of the executor's)
ResultToStorePending(js) == [status |-> ExecutionStatusPending, errorMessage |-> ""]

\* executions.go:211  the result handed to UpdateResult(ctx, execution.Id, result)
ResultToStore(js) == js.result

\* executions.go:220  execution.ExecutionResult = &result
WithResult(e, result) ==
    [e EXCEPT !.status = result.status, !.errorMessage = result.errorMessage,
              !.cause = ""]

\* (variant: the metric is recorded and no "test ended" event is emitted)
MetricWithoutEnded(js, sk) ==
    [js EXCEPT !.metric = @ + 1, !.trace = @ \o <<"metric">>]

\* (variant: the "test ended" event is emitted before the metric is recorded)
EndedThenMetric(js, sk) ==
    [notifyEvents(js, sk, WebhookTypeEndTest) EXCEPT
        !.metric = @ + 1, !.trace = @ \o <<"metric">>]

\* executions.go:223-237  s.Metrics.IncExecution, then the "test ended" event
MetricThenEnded(js, sk) ==
    notifyEvents([js EXCEPT !.metric = @ + 1, !.trace = @ \o <<"metric">>], sk,
                 WebhookTypeEndTest)

\* executions.go:211-239: UpdateResult, metric, "test ended" event, return.
\* ans: "ok" | "storageError"
executeUpdate(js, w, j, req, ans) ==
    LET e == js.execution
        js1 == [js EXCEPT !.trace = @ \o <<"update">>]
        e1 == WithResult(e, js.result)
        n1 == notifyEvents(js1, w.sk, WebhookTypeEndTest)
        n2 == MetricThenEnded(js1, w.sk)
    IN  IF ans = "storageError"
          THEN [js |-> Return(n1, Errw(e, "update execution error", "storage")),
                w |-> w]
        ELSE [js |-> IF js.err
                       THEN Return(n2, Errw(e1, "test execution failed",
                                            ErrAfterNotify(n2, "dispatch")))
                       ELSE Return(n2, e1),
              w |-> [w EXCEPT !.st = [w.st EXCEPT ![e.id] = UpdateResult(@, ResultToStore(js))],
                              !.wr = Logged(w.wr, e.id, "UpdateResult", j,
                                            ResultToStore(js).status)]]

\* the collaborator answers each step of executeTest can meet
Answers(pc, req) ==
    CASE pc = "check" -> {"ok", "lookupError", "optionsError"}
      [] pc = "insert" -> {"ok", "storageError"}
      [] pc = "start" -> {"ok", "secretNotFound", "secretError", "storageError"}
      [] pc = "dispatch" -> IF req.sync THEN {"ok", "failed", "dispatchError"}
                            ELSE {"ok", "dispatchError"}
      [] pc = "update" -> {"ok", "storageError"}
      [] OTHER -> {}

IsFault(ans) == ans \notin {"ok", "secretNotFound", "failed"}

\* one step of executeTest (executions.go:144-240)
executeTest(js, w, j, req, ans) ==
    LET r == CASE js.pc = "check" -> executeCheck(js, w, j, req, ans)
               [] js.pc = "insert" -> executeInsert(js, w, j, req, ans)
               [] js.pc = "start" -> executeStart(js, w, j, req, ans)
               [] js.pc = "dispatch" -> executeDispatch(js, w, j, req, ans)
               [] js.pc = "update" -> executeUpdate(js, w, j, req, ans)
    IN  [js |-> [r.js EXCEPT !.answers = @ \o <<ans>>], w |-> r.w]

\* ------------------------------------------------- ExecuteTestsHandler
\* the number of collaborator failures a behaviour may hold
FaultBudget ==
    IF \A r \in DOMAIN request : request[r].id # 0 THEN MaxFaults ELSE MaxBatchFaults

MissingTest == NumTests + 1

NoQuery == [kind |-> "absent", value |-> 0]
BadQuery == [kind |-> "text", value |-> 0]
IntQuery(n) == [kind |-> "int", value |-> n]

\* c.Query("concurrency", defaultConcurrencyLevel), executions.go:104
Query(q, default) == IF q.kind = "absent" THEN IntQuery(default) ELSE q

\* strconv.Atoi, executions.go:104
Atoi(q) == [ok |-> q.kind = "int", value |-> q.value]

\* executions.go:104-109: the concurrency handed to workerpool.New
concurrencyLevel(req) == Atoi(Query(req.concurrency, defaultConcurrencyLevel)).value

\* (variant: the "callback" override is not looked at)
RunsNowUnlessScheduled(test, req) == test.schedule = ""

\* executions.go:75: the test runs now (no schedule, or a "callback" override)
RunsNow(test, req) == test.schedule = "" \/ req.callback

\* executions.go:95-100
QueuedExecution(t) ==
    [id |-> NoId, name |-> NoName, testName |-> t,
     status |-> ExecutionStatusQueued, errorMessage |-> "", cause |-> "",
     started |-> FALSE]

NoResponse == [code |-> 0, message |-> "", body |-> <<>>]

\* s.Error(c, status, err)
ErrorResponse(code, msg) == [code |-> code, message |-> msg, body |-> <<>>]

\* c.JSON(...)
JSON(body) == [code |-> 200, message |-> "", body |-> body]

NewHandler ==
    [pc |-> "start", list |-> <<>>, i |-> 1, results |-> <<>>, work |-> <<>>,
     response |-> NoResponse]

\* the worker pool as created by workerpool.New, before Run and SendRequests
NewPool(cap) ==
    [created |-> FALSE, cap |-> cap, concurrency |-> 0, toSend |-> <<>>,
     requests |-> <<>>, requestsClosed |-> FALSE, idle |-> 0, busy |-> {},
     exited |-> 0, responses |-> <<>>, responsesClosed |-> FALSE, closes |-> 0,
     published |-> <<>>, cancelled |-> FALSE, inFlight |-> {}]

\* (variant: the worker loop does not look at the context)
AdmitsAlways(p) == TRUE

\* worker loop: a new request is taken only while the context of Run is live
Admits(p) == ~p.cancelled

\* Run(ctx) starts exactly `concurrency` worker loops (none when the
\* concurrency is zero or less)
Workers(concurrency) == IF concurrency > 0 THEN concurrency ELSE 0

\* (variant: Run(ctx) is started twice)
StartedPoolRunTwice(p, level, jobs) ==
    [p EXCEPT !.created = TRUE, !.concurrency = level, !.idle = 2 * Workers(level),
              !.toSend = jobs]

\* (variant: Run(ctx) is not started)
StartedPoolWithoutRun(p, level, jobs) ==
    [p EXCEPT !.created = TRUE, !.concurrency = level, !.toSend = jobs]

\* executions.go:109-112: the pool with its concurrency, SendRequests(jobs) and
\* Run(ctx) both started
StartedPool(p, level, jobs) ==
    [p EXCEPT !.created = TRUE, !.concurrency = level, !.idle = Workers(level),
              !.toSend = jobs]

RECURSIVE SeqOf(_, _)
\* 1..n as a sequence, the order TestsClient.List returns the items in
SeqOf(lo, hi) == IF lo > hi THEN <<>> ELSE <<lo>> \o SeqOf(lo + 1, hi)

Finish(hs, resp) == [hs EXCEPT !.pc = "done", !.response = resp]

\* executions.go:44-70: body, test id, the tests of the request.
\* ans: "ok" | "clientError" (TestsClient.Get / List fails)
HandlerStart(r) ==
    /\ h[r].pc = "start"
    /\ \E ans \in {"ok", "clientError"} :
        /\ IsFault(ans) => faults < FaultBudget /\ request[r].bodyOk
        /\ faults' = IF IsFault(ans) THEN faults + 1 ELSE faults
        /\ h' = [h EXCEPT ![r] =
                IF ~request[r].bodyOk
                  THEN Finish(@, ErrorResponse(400, "test request body invalid"))
                ELSE IF request[r].id # 0
                  THEN IF ans = "clientError" \/ request[r].id \notin DOMAIN tests
                         THEN Finish(@, ErrorResponse(500, "can't get test"))
                         ELSE [@ EXCEPT !.pc = "partition", !.list = <<request[r].id>>]
                ELSE IF ans = "clientError"
                  THEN Finish(@, ErrorResponse(500, "can't get tests"))
                  ELSE [@ EXCEPT !.pc = "partition", !.list = SeqOf(1, NumTests)]]
    /\ UNCHANGED <<stream, call, sinks, tests, request, storage, writes, cron, pool, job>>

\* executions.go:74-101: one iteration of the loop over the tests.
\* ans: "ok" | "applyError" (CronJobClient.Apply fails)
HandlerPartition(r) ==
    /\ h[r].pc = "partition"
    /\ h[r].i <= Len(h[r].list)
    /\ LET t == h[r].list[h[r].i] IN
       \E ans \in {"ok", "applyError"} :
        /\ IsFault(ans) => faults < FaultBudget /\ ~RunsNow(tests[t], request[r])
        /\ faults' = IF IsFault(ans) THEN faults + 1 ELSE faults
        /\ IF RunsNow(tests[t], request[r])
             THEN /\ h' = [h EXCEPT ![r].work = @ \o <<t>>, ![r].i = @ + 1]
                  /\ cron' = cron
           ELSE IF ans = "applyError"
             THEN /\ h' = [h EXCEPT ![r] =
                            Finish(@, ErrorResponse(500, "can't create scheduled test"))]
                  /\ cron' = cron
           ELSE /\ h' = [h EXCEPT ![r].results = @ \o <<QueuedExecution(t)>>,
                                  ![r].i = @ + 1]
                /\ cron' = [cron EXCEPT ![t] = @ + 1]
    /\ UNCHANGED <<stream, call, sinks, tests, request, storage, writes, pool, job>>

\* prepareTestRequests, executions.go:131-142: one pool request per work item
prepareTestRequests(r, work) == [k \in 1..Len(work) |-> <<r, work[k]>>]

\* executions.go:103-112: concurrency level, the pool, SendRequests and Run
\* started as separate tasks
HandlerPool(r) ==
    /\ h[r].pc = "partition"
    /\ h[r].i > Len(h[r].list)
    /\ LET level == Atoi(Query(request[r].concurrency, defaultConcurrencyLevel)) IN
       IF Len(h[r].work) = 0
         THEN /\ h' = [h EXCEPT ![r].pc = "respond"]
              /\ pool' = pool
       ELSE IF ~level.ok
         THEN /\ h' = [h EXCEPT ![r] =
                        Finish(@, ErrorResponse(400, "can't detect concurrency level"))]
              /\ pool' = pool
       ELSE /\ h' = [h EXCEPT ![r].pc = "drain"]
            /\ pool' = [pool EXCEPT ![r] =
                        StartedPool(@, concurrencyLevel(request[r]),
                                    prepareTestRequests(r, h[r].work))]
    /\ UNCHANGED <<stream, call, sinks, tests, request, storage, writes, cron, job, faults>>

\* executions.go:114-116: one response taken off the response stream
HandlerDrain(r) ==
    /\ h[r].pc = "drain"
    /\ pool[r].responses # <<>>
    /\ h' = [h EXCEPT ![r].results = @ \o <<Head(pool[r].responses).result>>]
    /\ pool' = [pool EXCEPT ![r].responses = Tail(@)]
    /\ UNCHANGED <<stream, call, sinks, tests, request, storage, writes, cron, job, faults>>

\* executions.go:114-117: the range loop ends when the stream is closed and empty
HandlerDrained(r) ==
    /\ h[r].pc = "drain"
    /\ pool[r].responses = <<>>
    /\ pool[r].responsesClosed
    /\ h' = [h EXCEPT ![r].pc = "respond"]
    /\ UNCHANGED <<stream, call, sinks, tests, request, storage, writes, cron, pool, job, faults>>

\* (variant: the first result's failure is returned for a batch as well)
RespondFirstFailure(req, results) ==
    IF Len(results) # 0 /\ IsFailed(results[1])
      THEN ErrorResponse(500, results[1].errorMessage)
    ELSE IF req.id # 0 /\ Len(results) # 0 THEN JSON(<<results[1]>>)
    ELSE JSON(results)

\* executions.go:119-127
Respond(req, results) ==
    IF req.id # 0 /\ Len(results) # 0
      THEN IF IsFailed(results[1])
             THEN ErrorResponse(500, results[1].errorMessage)
             ELSE JSON(<<results[1]>>)
      ELSE JSON(results)

HandlerRespond(r) ==
    /\ h[r].pc = "respond"
    /\ h' = [h EXCEPT ![r] = Finish(@, Respond(request[r], @.results))]
    /\ UNCHANGED <<stream, call, sinks, tests, request, storage, writes, cron, pool, job, faults>>

\* ---------------------------------------------------------- worker pool
\* SendRequests: enqueue the next job; blocks while the queue is full
SendRequest(r) ==
    /\ pool[r].created
    /\ pool[r].toSend # <<>>
    /\ Len(pool[r].requests) < pool[r].cap
    /\ pool' = [pool EXCEPT ![r].requests = @ \o <<Head(pool[r].toSend)>>,
                            ![r].toSend = Tail(@)]
    /\ UNCHANGED <<stream, call, sinks, tests, request, storage, writes, cron, h, job, faults>>

\* SendRequests: the whole batch is enqueued, the send side is closed
CloseRequests(r) ==
    /\ pool[r].created
    /\ pool[r].toSend = <<>>
    /\ ~pool[r].requestsClosed
    /\ pool' = [pool EXCEPT ![r].requestsClosed = TRUE]
    /\ UNCHANGED <<stream, call, sinks, tests, request, storage, writes, cron, h, job, faults>>

\* The steps of one job that touch nothing another job reads are taken
\* together: the store is read by (name, test) only in the uniqueness check and
\* in Insert, and StartExecution and UpdateResult write the job's own record by
\* id, so the check is one step, Insert is one step, and StartExecution, the
\* secret probe, the dispatch and UpdateResult are one step.
RECURSIVE executeSteps(_, _, _, _, _)
executeSteps(js, w, j, req, answers) ==
    IF answers = <<>> \/ js.pc \notin {"check", "insert", "start", "dispatch", "update"}
      THEN [js |-> js, w |-> w]
      ELSE LET n == executeTest(js, w, j, req, Head(answers))
           IN  executeSteps(n.js, n.w, j, req, Tail(answers))

RECURSIVE Faults(_)
Faults(answers) ==
    IF answers = <<>> THEN 0
    ELSE (IF IsFault(Head(answers)) THEN 1 ELSE 0) + Faults(Tail(answers))

\* the answers the step starting at pc can meet: one per collaborator call it
\* makes, none after the call at which executeTest returns
StepAnswers(pc, req) ==
    IF pc = "start"
      THEN {<<a>> : a \in {"storageError", "secretError"}}
           \cup {<<x[1], x[2], x[3]>> :
                    x \in {"ok", "secretNotFound"} \X Answers("dispatch", req)
                            \X Answers("update", req)}
      ELSE {<<a>> : a \in Answers(pc, req)}

\* worker loop: an idle worker takes one job and starts its work-function,
\* which runs up to the uniqueness check and the execute options
WorkerTake(r) ==
    /\ pool[r].idle > 0
    /\ pool[r].requests # <<>>
    /\ Admits(pool[r])
    /\ LET j == Head(pool[r].requests) IN
       \E ans \in Answers("check", request[r]) :
        /\ IsFault(ans) => faults < FaultBudget
        /\ faults' = IF IsFault(ans) THEN faults + 1 ELSE faults
        /\ pool' = [pool EXCEPT ![r].requests = Tail(@), ![r].idle = @ - 1,
                                ![r].busy = @ \cup {j}]
        /\ job' = [job EXCEPT ![j] =
                    executeTest([@ EXCEPT !.pc = "check"],
                                [st |-> storage, wr |-> writes, sk |-> sinks], j, request[r], ans).js]
    /\ UNCHANGED <<stream, call, sinks, tests, request, storage, writes, cron, h>>

\* worker loop: the work-function s.executeTest makes one step
WorkerExecute(j) ==
    /\ j \in pool[j[1]].busy
    /\ job[j].pc \in {"insert", "start"}
    /\ \E answers \in StepAnswers(job[j].pc, request[j[1]]) :
        /\ faults + Faults(answers) <= FaultBudget
        /\ faults' = faults + Faults(answers)
        /\ LET n == executeSteps(job[j], [st |-> storage, wr |-> writes, sk |-> sinks], j,
                                 request[j[1]], answers) IN
            /\ job' = [job EXCEPT ![j] = n.js]
            /\ storage' = n.w.st
            /\ writes' = n.w.wr
    /\ UNCHANGED <<stream, call, sinks, tests, request, cron, h, pool>>

\* the response a worker wraps the work-function's (Out, error) into
Response(js) == [result |-> js.execution, err |-> js.retErr]

\* worker loop: publish the response; blocks while the response stream is full
WorkerPublish(j) ==
    /\ j \in pool[j[1]].busy
    /\ job[j].pc = "return"
    /\ Len(pool[j[1]].responses) < pool[j[1]].cap
    /\ pool' = [pool EXCEPT ![j[1]].responses = @ \o <<Response(job[j])>>,
                            ![j[1]].published = @ \o <<Response(job[j])>>,
                            ![j[1]].busy = @ \ {j},
                            ![j[1]].idle = @ + 1]
    /\ job' = [job EXCEPT ![j].pc = "done"]
    /\ UNCHANGED <<stream, call, sinks, tests, request, storage, writes, cron, h, faults>>

\* worker loop: the send side is closed and the queue is empty, or the context
\* is cancelled: the loop ends
WorkerExit(r) ==
    /\ pool[r].idle > 0
    /\ \/ pool[r].requests = <<>> /\ pool[r].requestsClosed
       \/ pool[r].cancelled
    /\ pool' = [pool EXCEPT ![r].idle = @ - 1, ![r].exited = @ + 1]
    /\ UNCHANGED <<stream, call, sinks, tests, request, storage, writes, cron, h, job, faults>>

\* Run: all workers finished, the response stream is closed
RunClose(r) ==
    /\ pool[r].created
    /\ pool[r].exited = Workers(pool[r].concurrency)
    /\ ~pool[r].responsesClosed
    /\ pool' = [pool EXCEPT ![r].responsesClosed = TRUE, ![r].closes = @ + 1]
    /\ UNCHANGED <<stream, call, sinks, tests, request, storage, writes, cron, h, job, faults>>

\* the context of the request (executions.go:42, passed to Run at :112) is
\* cancelled; the jobs executing at that moment are remembered
Cancel(r) ==
    /\ h[r].pc # "done"
    /\ ~pool[r].cancelled
    /\ pool' = [pool EXCEPT ![r].cancelled = TRUE, ![r].inFlight = pool[r].busy]
    /\ UNCHANGED <<stream, call, sinks, tests, request, storage, writes, cron, h, job, faults>>

\* executions.go:302-327  ExecutionLogsHandler up to the answer of
\* Executor.Logs: on an error the writer is flushed and the stream ends
LogsOpen ==
    /\ stream.pc = "open"
    /\ stream' = [stream EXCEPT !.pc = IF stream.logsErr THEN "ended" ELSE "streaming",
                                 !.flushed = Len(stream.w)]
    /\ UNCHANGED <<call, sinks, tests, request, storage, writes, cron, h, pool, job, faults>>

\* the backend sends its next log line on the channel Logs returned
LogsSend ==
    /\ stream.pc = "streaming"
    /\ ~stream.closed
    /\ stream.toSend # <<>>
    /\ Len(stream.chan) < LogsCap
    /\ stream' = [stream EXCEPT !.chan = Append(@, Head(stream.toSend)),
                                 !.toSend = Tail(@)]
    /\ UNCHANGED <<call, sinks, tests, request, storage, writes, cron, h, pool, job, faults>>

\* the backend closes the channel after its last line
LogsClose ==
    /\ stream.pc = "streaming"
    /\ ~stream.closed
    /\ stream.toSend = <<>>
    /\ stream' = [stream EXCEPT !.closed = TRUE]
    /\ UNCHANGED <<call, sinks, tests, request, storage, writes, cron, h, pool, job, faults>>

\* executions.go:337-349  one round of `for out := range logs`
LogsWrite ==
    /\ stream.pc = "streaming"
    /\ stream.chan # <<>>
    /\ LET out == Head(stream.chan)
       IN  stream' = [stream EXCEPT !.chan = Tail(@),
                                    !.received = Append(@, out),
                                    !.w = @ \o Chunk(out),
                                    !.flushed = Len(stream.w \o Chunk(out))]
    /\ UNCHANGED <<call, sinks, tests, request, storage, writes, cron, h, pool, job, faults>>

\* executions.go:337, 350  the loop ends when the channel is closed and drained;
\* the stream writer returns
LogsEnd ==
    /\ stream.pc = "streaming"
    /\ stream.chan = <<>>
    /\ stream.closed
    /\ stream' = [stream EXCEPT !.pc = "ended"]
    /\ UNCHANGED <<call, sinks, tests, request, storage, writes, cron, h, pool, job, faults>>

\* a call of one of the functions of the result model returns
Returns(fn, out, after) ==
    /\ call.fn = fn
    /\ ~call.returned
    /\ call' = [call EXCEPT !.returned = TRUE, !.out = out, !.after = after]
    /\ UNCHANGED <<stream, sinks, tests, request, storage, writes, cron, h, pool, job, faults>>

CallIsCompleted == Returns("IsCompleted", IsCompleted(call.args[1]), call.args)

CallCalculateDuration ==
    Returns("CalculateDuration",
            CalculateDuration(call.args[1], call.args[2], call.args[3]), call.args)

CallTable == Returns("Table", Table(call.args[1]), call.args)

CallNewStartedTestExecution ==
    Returns("NewStartedTestExecution", NewStartedTestExecution(call.args[1]), call.args)

\* executions.go:446  request.Params = mergeParams(testCR.Spec.Params, request.Params)
CallMergeParams ==
    Returns("mergeParams", mergeParams(call.args[1], call.args[2]),
            mergeParamsLeaves(call.args[1], call.args[2]))

\* ------------------------------------------------------- specifications
Schedules == {"", "* * * * *"}

\* an execution stored by an earlier request under the caller-supplied name
OldExecution(t) ==
    [id |-> OldId(t), name |-> GivenName, testName |-> t,
     status |-> ExecutionStatusSuccess, errorMessage |-> "", cause |-> "",
     started |-> TRUE]

Queries == {NoQuery, BadQuery} \cup {IntQuery(n) : n \in 1..MaxConcurrency}

DefaultRequest ==
    [id |-> 0, name |-> NoName, sync |-> FALSE, callback |-> FALSE,
     bodyOk |-> TRUE, concurrency |-> NoQuery]

\* a request for one test by id, a malformed request, or a request for a test
\* that does not exist
SingleRequests ==
    {[DefaultRequest EXCEPT !.bodyOk = FALSE], [DefaultRequest EXCEPT !.id = MissingTest]}
    \cup [id : {1}, name : {NoName, GivenName}, sync : BOOLEAN, callback : BOOLEAN,
          bodyOk : {TRUE}, concurrency : Queries]

\* a request for every test (no id): asynchronous, with a concurrency bound
BatchRequests ==
    [id : {0}, name : {NoName, GivenName}, sync : {FALSE}, callback : BOOLEAN,
     bodyOk : {TRUE},
     concurrency : {BadQuery} \cup {IntQuery(n) : n \in 1..MaxConcurrency}]

\* the store before the request: empty, or holding an execution of test 1
\* under the name the caller supplies
Stores(req) ==
    IF req.name = GivenName /\ req.id \in {0, 1} /\ req.bodyOk
      THEN {[i \in {OldId(1)} |-> OldExecution(1)], [i \in {} |-> OldExecution(1)]}
      ELSE {[i \in {} |-> OldExecution(1)]}

InitRest ==
    /\ writes = [i \in {} |-> <<>>]
    /\ cron = [t \in TestNames |-> 0]
    /\ h = [r \in DOMAIN request |-> NewHandler]
    /\ job = [j \in (DOMAIN request) \X TestNames |-> NewJob]
    /\ faults = 0
    /\ sinks = HealthySinks
    /\ call = NoCall
    /\ stream = NoStream

\* one request for a single test: only the schedule of that test matters
InitSingle ==
    /\ request \in [{1} -> SingleRequests]
    /\ tests \in [TestNames -> [schedule : Schedules]]
    /\ \A t \in TestNames \ {1} : tests[t].schedule = ""
    /\ storage \in Stores(request[1])
    /\ pool \in [{1} -> {NewPool(c) : c \in 1..MaxQueueCap}]
    /\ InitRest

\* one request for the whole batch of tests
InitBatch ==
    /\ request \in [{1} -> BatchRequests]
    /\ tests \in [TestNames -> [schedule : Schedules]]
    /\ request[1].callback =>
        /\ \A t \in TestNames : tests[t].schedule # ""
        /\ request[1].name = NoName
        /\ request[1].concurrency = IntQuery(1)
    /\ storage \in Stores(request[1])
    /\ pool \in [{1} -> {NewPool(c) : c \in 1..MaxQueueCap}]
    /\ request[1].callback \/ request[1].concurrency = BadQuery => pool[1].cap = 1
    /\ InitRest

Init == InitSingle \/ InitBatch

\* two requests in flight at once for test 1 under one caller-supplied name,
\* each with its own handler and pool
RaceRequests ==
    [id : {1}, name : {GivenName}, sync : BOOLEAN, callback : {FALSE},
     bodyOk : {TRUE}, concurrency : {IntQuery(1)}]

\* batches of 0 to 3 pool jobs (the tests after the first k are scheduled), on
\* every queue capacity and every concurrency; a collaborator fails only in the
\* runs on the smallest pool (elsewhere the budget of failures is spent)
InitSizes ==
    /\ request \in [{1} -> {b \in BatchRequests :
            b.name = NoName /\ ~b.callback /\ b.concurrency # BadQuery}]
    /\ \E k \in 0..NumTests :
        tests = [t \in TestNames |-> [schedule |-> IF t <= k THEN "" ELSE "* * * * *"]]
    /\ storage = [i \in {} |-> OldExecution(1)]
    /\ pool \in [{1} -> {NewPool(c) : c \in 1..MaxQueueCap}]
    /\ writes = [i \in {} |-> <<>>]
    /\ cron = [t \in TestNames |-> 0]
    /\ h = [r \in DOMAIN request |-> NewHandler]
    /\ job = [j \in (DOMAIN request) \X TestNames |-> NewJob]
    /\ faults \in {MaxBatchFaults - 1, MaxBatchFaults}
    /\ faults = MaxBatchFaults - 1 => pool[1].cap = 1 /\ request[1].concurrency = IntQuery(1)
    /\ sinks = HealthySinks
    /\ call = NoCall
    /\ stream = NoStream

\* batches of 0 to 3 pool jobs with the concurrency the caller may put in the
\* query: none, or any integer from MinConcurrency up, zero and negative
\* values included; no collaborator fails
InitLevels ==
    /\ request \in [{1} -> [id : {0}, name : {NoName}, sync : {FALSE}, callback : {FALSE},
                            bodyOk : {TRUE},
                            concurrency : {NoQuery}
                                \cup {IntQuery(n) : n \in MinConcurrency..MaxConcurrency}]]
    /\ \E k \in 0..NumTests :
        tests = [t \in TestNames |-> [schedule |-> IF t <= k THEN "" ELSE "* * * * *"]]
    /\ request[1].concurrency = NoQuery => tests[2].schedule # ""
    /\ storage = [i \in {} |-> OldExecution(1)]
    /\ pool = [r \in {1} |-> NewPool(1)]
    /\ writes = [i \in {} |-> <<>>]
    /\ cron = [t \in TestNames |-> 0]
    /\ h = [r \in DOMAIN request |-> NewHandler]
    /\ job = [j \in (DOMAIN request) \X TestNames |-> NewJob]
    /\ faults = MaxBatchFaults
    /\ sinks = HealthySinks
    /\ call = NoCall
    /\ stream = NoStream

\* a batch of 3 pool jobs whose context may be cancelled; a collaborator fails
\* only in the runs of concurrency 1 (elsewhere the budget of failures is spent)
InitCancel ==
    /\ request \in [{1} -> {b \in BatchRequests :
            b.name = NoName /\ ~b.callback /\ b.concurrency # BadQuery}]
    /\ tests = [t \in TestNames |-> [schedule |-> ""]]
    /\ storage = [i \in {} |-> OldExecution(1)]
    /\ pool = [r \in {1} |-> NewPool(1)]
    /\ writes = [i \in {} |-> <<>>]
    /\ cron = [t \in TestNames |-> 0]
    /\ h = [r \in DOMAIN request |-> NewHandler]
    /\ job = [j \in (DOMAIN request) \X TestNames |-> NewJob]
    /\ faults = IF request[1].concurrency = IntQuery(1)
                  THEN MaxBatchFaults - 1 ELSE MaxBatchFaults
    /\ sinks = HealthySinks
    /\ call = NoCall
    /\ stream = NoStream

\* any of the collaborators of notifyEvents may fail: WebhooksClient.GetByEvent,
\* the delivery by EventsEmitter.Notify, slacknotifier.SendEvent
Sinks ==
    {[HealthySinks EXCEPT !.lookup = l, !.emitter = e, !.slack = k] :
        l \in {"ok", "error"}, e \in {"ok", "error"}, k \in {"ok", "error"}}

\* one request for test 1, with notification sinks that may fail
InitNotify ==
    /\ request \in [{1} -> [id : {1}, name : {NoName}, sync : BOOLEAN,
                            callback : {FALSE}, bodyOk : {TRUE},
                            concurrency : {NoQuery}]]
    /\ tests = [t \in TestNames |-> [schedule |-> ""]]
    /\ storage = [i \in {} |-> OldExecution(1)]
    /\ pool = [r \in {1} |-> NewPool(1)]
    /\ writes = [i \in {} |-> <<>>]
    /\ cron = [t \in TestNames |-> 0]
    /\ h = [r \in DOMAIN request |-> NewHandler]
    /\ job = [j \in (DOMAIN request) \X TestNames |-> NewJob]
    /\ faults = 0
    /\ sinks \in Sinks
    /\ call = NoCall
    /\ stream = NoStream

Statuses ==
    {ExecutionStatusQueued, ExecutionStatusPending, ExecutionStatusRunning,
     ExecutionStatusSuccess, ExecutionStatusError}

RECURSIVE SeqsUpTo(_, _)
\* the sequences over S of length at most n
SeqsUpTo(S, n) ==
    IF n = 0 THEN {<<>>}
    ELSE LET shorter == SeqsUpTo(S, n - 1)
         IN  shorter \cup {Append(q, x) : q \in shorter, x \in S}

\* no request in flight; a consumer asks for the logs of an execution, whose
\* backend has up to MaxLines lines to send, or cannot give the logs
InitLogs ==
    /\ request = <<>>
    /\ tests = [t \in TestNames |-> [schedule |-> ""]]
    /\ storage = [i \in {} |-> OldExecution(1)]
    /\ pool = <<>>
    /\ writes = [i \in {} |-> <<>>]
    /\ cron = [t \in TestNames |-> 0]
    /\ h = <<>>
    /\ job = [j \in {} |-> NewJob]
    /\ faults = 0
    /\ sinks = HealthySinks
    /\ call = NoCall
    /\ stream \in {[NoStream EXCEPT !.pc = "open", !.logsErr = e, !.toSend = q] :
                        e \in BOOLEAN, q \in SeqsUpTo(Lines, MaxLines)}

\* the lists of steps a test has before, as and after its steps
StepLists ==
    SeqsUpTo({[kind |-> TestStepTypeExecuteScript, name |-> "s1"],
              [kind |-> TestStepTypeDelay, name |-> "s2"]}, MaxSteps)

\* the calls of the functions of the result model, over all their inputs
Calls ==
    {[NoCall EXCEPT !.fn = "IsCompleted", !.args = <<st>>] : st \in Statuses}
    \cup {[NoCall EXCEPT !.fn = "CalculateDuration", !.args = <<a[1], a[2], a[3]>>] :
                a \in Times \X Times \X Instants}
    \cup {[NoCall EXCEPT !.fn = "mergeParams", !.args = <<a[1], a[2]>>] :
                a \in ParamMaps \X ParamMaps}
    \cup {[NoCall EXCEPT !.fn = "Table", !.args = <<srs>>] :
                srs \in SeqsUpTo(StepResults, MaxSteps)}
    \cup {[NoCall EXCEPT !.fn = "NewStartedTestExecution",
                         !.args = <<[before |-> a[1], steps |-> a[2], after |-> a[3]]>>] :
                a \in StepLists \X StepLists \X StepLists}

\* no request in flight; one function of the result model is called
InitCalls ==
    /\ request = <<>>
    /\ tests = [t \in TestNames |-> [schedule |-> ""]]
    /\ storage = [i \in {} |-> OldExecution(1)]
    /\ pool = <<>>
    /\ writes = [i \in {} |-> <<>>]
    /\ cron = [t \in TestNames |-> 0]
    /\ h = <<>>
    /\ job = [j \in {} |-> NewJob]
    /\ faults = 0
    /\ sinks = HealthySinks
    /\ call \in Calls
    /\ stream = NoStream

InitRace ==
    /\ request \in [{1, 2} -> RaceRequests]
    /\ tests = [t \in TestNames |-> [schedule |-> ""]]
    /\ storage \in Stores(request[1])
    /\ pool = [r \in {1, 2} |-> NewPool(1)]
    /\ InitRest

Next ==
    \/ \E r \in DOMAIN request : HandlerStart(r)
    \/ \E r \in DOMAIN request : HandlerPartition(r)
    \/ \E r \in DOMAIN request : HandlerPool(r)
    \/ \E r \in DOMAIN request : HandlerDrain(r)
    \/ \E r \in DOMAIN request : HandlerDrained(r)
    \/ \E r \in DOMAIN request : HandlerRespond(r)
    \/ \E r \in DOMAIN request : SendRequest(r)
    \/ \E r \in DOMAIN request : CloseRequests(r)
    \/ \E r \in DOMAIN request : WorkerTake(r)
    \/ \E j \in DOMAIN job : WorkerExecute(j)
    \/ \E j \in DOMAIN job : WorkerPublish(j)
    \/ \E r \in DOMAIN request : WorkerExit(r)
    \/ \E r \in DOMAIN request : RunClose(r)

\* ================================================================ claims
PoolJobs(r) == {<<r, h[r].work[k]>> : k \in 1..Len(h[r].work)}

HasResult(resp) == resp.result # ZeroExecution
HasError(resp) == resp.err

\* C1: for every batch of N jobs handed to SendRequests, the response stream
\* carries exactly N responses by the time it is closed, one per submitted
\* job (the execution that job returned), and every response ever published
\* carries either a result or an error, never both and never neither.
C1_OneResponsePerJob ==
    \A r \in DOMAIN request :
        /\ \A k \in 1..Len(pool[r].published) :
              HasResult(pool[r].published[k]) # HasError(pool[r].published[k])
        /\ Len(pool[r].published) <= Len(h[r].work)
        /\ pool[r].responsesClosed =>
            /\ Len(pool[r].published) = Len(h[r].work)
            /\ \A j \in PoolJobs(r) :
                /\ job[j].pc = "done"
                /\ Cardinality({k \in 1..Len(pool[r].published) :
                        pool[r].published[k] = Response(job[j])})
                    = Cardinality({i \in PoolJobs(r) : Response(job[i]) = Response(job[j])})

\* C1 witness: a closed response stream that carried three responses, one of
\* them the Error execution of a failed job
C1_Witness ==
    \E r \in DOMAIN request :
        /\ pool[r].responsesClosed
        /\ Len(pool[r].published) = 3
        /\ \E k \in 1..3 : pool[r].published[k].result.status = ExecutionStatusError

\* the jobs whose work-function has been entered
Started(j) == job[j].pc # "new"
Finished(j) == job[j].pc \in {"return", "done"}

Stored(name, test) ==
    {i \in DOMAIN storage : storage[i].name = name /\ storage[i].testName = test}

\* the request of job j names an execution that an earlier request stored for
\* the same test
NameTaken(j) ==
    /\ request[j[1]].name = GivenName
    /\ OldId(j[2]) \in DOMAIN storage

\* C2: a job whose execution name already exists in storage for its test never
\* reaches Pending or Running: it gets no further than the Insert the store
\* refuses, so it inserts no record, emits no event, never calls the executor,
\* and returns an execution in status Error; the store keeps exactly one record
\* for that (test, name) pair, the one it held before.
C2_DuplicateNameRejected ==
    \A j \in DOMAIN job :
        NameTaken(j) /\ Started(j) =>
            /\ job[j].pc \in {"insert", "return", "done"}
            /\ Finished(j) => job[j].execution.status = ExecutionStatusError
            /\ job[j].dispatched = 0
            /\ job[j].events = <<>>
            /\ NewId(j) \notin DOMAIN storage
            /\ NewId(j) \notin DOMAIN writes
            /\ Stored(GivenName, j[2]) = {OldId(j[2])}
            /\ storage[OldId(j[2])] = OldExecution(j[2])

\* C2 witness: the duplicate was found by the uniqueness check and rejected
C2_Witness ==
    \E j \in DOMAIN job :
        /\ NameTaken(j)
        /\ job[j].pc = "done"
        /\ job[j].answers = <<"ok">>
        /\ job[j].execution.id = OldId(j[2])

Rank(status) ==
    CASE status = ExecutionStatusPending -> 1
      [] status = ExecutionStatusRunning -> 2
      [] status \in {ExecutionStatusSuccess, ExecutionStatusError} -> 3
      [] OTHER -> 0

\* C4: for every execution id the writes to the store are Insert, then
\* StartExecution, then UpdateResult, each at most once and in this order, all
\* made by the one job that created the id; the statuses written start at
\* Pending and never go back (Pending, Running, then at most one terminal
\* status), no write follows a terminal status, and the stored status is the
\* last one written.
C4_OrderedOwnedWrites ==
    \A id \in DOMAIN writes :
        LET ws == writes[id] IN
        /\ Len(ws) \in 1..3
        /\ \A k \in 1..Len(ws) :
            /\ ws[k].op = <<"Insert", "StartExecution", "UpdateResult">>[k]
            /\ ws[k].by = ws[1].by
            /\ id = NewId(ws[k].by)
            /\ Rank(ws[k].status) >= 1
            /\ k < Len(ws) => ~IsCompleted(ws[k].status)
            /\ k > 1 => Rank(ws[k - 1].status) <= Rank(ws[k].status)
        /\ ws[1].status = ExecutionStatusPending
        /\ Len(ws) >= 2 => ws[2].status = ExecutionStatusRunning
        /\ id \in DOMAIN storage /\ storage[id].status = ws[Len(ws)].status

\* C4 witness: two jobs of one batch have each written their own record, one
\* of them up to a terminal status
C4_Witness ==
    \E a, b \in DOMAIN writes :
        /\ a # b
        /\ Len(writes[a]) = 3
        /\ IsCompleted(writes[a][3].status)
        /\ Len(writes[b]) >= 1

\* the store as it was before the requests: the records of earlier requests
\* (no step of executeTest writes them)
Storage0 == [i \in {x \in DOMAIN storage : x[1] = "old"} |-> storage[i]]

\* the execution job j returns when it runs alone on the initial store and its
\* collaborators answer as they did
Isolated(j) ==
    executeSteps([NewJob EXCEPT !.pc = "check"],
                 [st |-> Storage0, wr |-> [i \in {} |-> <<>>], sk |-> sinks],
                 j, request[j[1]], job[j].answers).js.execution

\* a test with a recurring schedule and no immediate-run override
Deferred(r, t) == tests[t].schedule # "" /\ ~request[r].callback

Listed(r) == {h[r].list[k] : k \in 1..Len(h[r].list)}
Count(seq, x) == Cardinality({k \in 1..Len(seq) : seq[k] = x})

\* the handler is past the scheduling loop and the concurrency value
PastValidation(r) ==
    /\ h[r].list # <<>>
    /\ h[r].i > Len(h[r].list)
    /\ h[r].work # <<>> => pool[r].created

\* C5: a batch request (no test id) that got past scheduling and the
\* concurrency value is answered with one result per selected test: the Queued
\* entry of each deferred test and, for each dispatched test, the execution its
\* job returned; that execution is the one the job returns when it runs alone
\* (a failing sibling changes nothing), and no job failure makes the answer an
\* error.
C5_BatchIsolatesFailures ==
    \A r \in DOMAIN request :
        request[r].id = 0 /\ h[r].pc = "done" /\ PastValidation(r) =>
            LET body == h[r].response.body IN
            /\ h[r].response.code = 200
            /\ Len(body) = Len(h[r].list)
            /\ \A t \in Listed(r) :
                IF Deferred(r, t)
                  THEN Count(body, QueuedExecution(t)) = 1
                  ELSE /\ job[<<r, t>>].execution = Isolated(<<r, t>>)
                       /\ Count(body, job[<<r, t>>].execution)
                            = Cardinality({u \in Listed(r) :
                                  /\ ~Deferred(r, u)
                                  /\ job[<<r, u>>].execution = job[<<r, t>>].execution})

\* C5 witness: a batch answered with three executions, the first of them failed
C5_Witness ==
    \E r \in DOMAIN request :
        /\ request[r].id = 0
        /\ h[r].pc = "done"
        /\ Len(h[r].response.body) = 3
        /\ h[r].response.body[1].status = ExecutionStatusError
        /\ h[r].response.body[2].status = ExecutionStatusRunning
        /\ h[r].response.body[3].status = ExecutionStatusRunning

\* the job of a single-target request whose dispatch returned an error
DispatchFailed(r) ==
    /\ request[r].id \in TestNames
    /\ h[r].pc = "done"
    /\ job[<<r, request[r].id>>].err

\* C6 (as claimed): a single-target request whose dispatch returns an error is
\* answered with an error built from the execution's error message, and the
\* record stored for that run has terminal status Error.
C6_Original ==
    \A r \in DOMAIN request :
        DispatchFailed(r) =>
            LET j == <<r, request[r].id>> IN
            /\ h[r].response.code = 500
            /\ h[r].response.message = job[j].execution.errorMessage
            /\ h[r].response.message # ""
            /\ storage[NewId(j)].status = ExecutionStatusError

\* C6 (amended): a single-target request whose dispatch returns an error is
\* answered with an error built from the execution's error message; the record
\* stored for that run has terminal status Error when the UpdateResult write of
\* the dispatcher's result succeeds, and stays as StartExecution left it (not
\* terminal) when that write fails too.
C6_DispatchErrorSurfaced ==
    \A r \in DOMAIN request :
        DispatchFailed(r) =>
            LET j == <<r, request[r].id>>
                updated == job[j].answers[Len(job[j].answers)] = "ok"
            IN
            /\ h[r].response.code = 500
            /\ h[r].response.message = job[j].execution.errorMessage
            /\ h[r].response.message # ""
            /\ updated => storage[NewId(j)].status = ExecutionStatusError
            /\ ~updated => ~IsCompleted(storage[NewId(j)].status)

\* C6 witness: the dispatch failed, its Error result was stored and the
\* request answered with the execution's message
C6_Witness ==
    \E r \in DOMAIN request :
        /\ DispatchFailed(r)
        /\ h[r].response = ErrorResponse(500, "test execution failed")
        /\ storage[NewId(<<r, request[r].id>>)].status = ExecutionStatusError

\* the scheduling loop of the handler has run over every test of the request
LoopDone(r) == h[r].list # <<>> /\ h[r].i > Len(h[r].list)

QueuedResults(r, t) == Count(h[r].results, QueuedExecution(t))

\* the places a pool job can be: waiting to be sent, in the queue, or taken
PoolJobCount(r, t) ==
    Count(pool[r].toSend, <<r, t>>) + Count(pool[r].requests, <<r, t>>)
        + (IF Started(<<r, t>>) THEN 1 ELSE 0)

\* C7: a deferred test (recurring schedule, no immediate-run override) is
\* registered with the scheduler and reported Queued, each exactly once when
\* the loop is through and never more than once before, and never gets a pool
\* job or an executor call; every other test is never registered nor Queued and
\* gets exactly one pool job; so 3 tests with one deferred give 1 Queued result
\* and 2 pool jobs, and the answer of the request lists each Queued entry once.
C7_PartitionBySchedule ==
    \A r \in DOMAIN request :
        /\ \A t \in Listed(r) :
            IF Deferred(r, t)
              THEN /\ job[<<r, t>>] = NewJob
                   /\ PoolJobCount(r, t) = 0
                   /\ Count(h[r].work, t) = 0
                   /\ cron[t] = QueuedResults(r, t)
                   /\ cron[t] <= 1
                   /\ LoopDone(r) => cron[t] = 1
                   /\ h[r].pc = "done" /\ h[r].response.code = 200 =>
                        Count(h[r].response.body, QueuedExecution(t)) = 1
              ELSE /\ cron[t] = 0
                   /\ QueuedResults(r, t) = 0
                   /\ Count(h[r].work, t) <= 1
                   /\ LoopDone(r) => Count(h[r].work, t) = 1
                   /\ pool[r].created => PoolJobCount(r, t) = 1
                   /\ job[<<r, t>>].dispatched <= 1
        /\ LoopDone(r) /\ Len(h[r].list) = 3
            /\ Cardinality({t \in Listed(r) : Deferred(r, t)}) = 1 =>
                /\ Len(h[r].results) >= 1
                /\ Cardinality({k \in 1..Len(h[r].results) :
                        h[r].results[k].status = ExecutionStatusQueued}) = 1
                /\ Len(h[r].work) = 2
                /\ pool[r].created => Len(prepareTestRequests(r, h[r].work)) = 2

\* C7 witness: a batch of 3 tests, one deferred, answered with 1 Queued entry
\* and the executions of 2 pool jobs, both dispatched
C7_Witness ==
    \E r \in DOMAIN request :
        /\ h[r].pc = "done"
        /\ h[r].response.code = 200
        /\ Len(h[r].list) = 3
        /\ Cardinality({t \in Listed(r) : Deferred(r, t)}) = 1
        /\ Len(h[r].response.body) = 3
        /\ h[r].response.body[1].status = ExecutionStatusQueued
        /\ \A t \in Listed(r) : ~Deferred(r, t) => job[<<r, t>>].dispatched = 1

\* the jobs whose work-function is executing
Executing(r) == {j \in pool[r].busy : job[j].pc # "return"}

\* the concurrency the caller asked for: the query value, 10 without one
RequestedLevel(r) ==
    IF request[r].concurrency.kind = "absent" THEN 10
    ELSE request[r].concurrency.value

\* C9: in every state of a pool created with New(concurrency), at most
\* `concurrency` work-functions are executing: Run started that many worker
\* loops, each is idle, busy with one job or finished, and the concurrency is
\* the level the handler read from the request.
C9_AtMostConcurrencyExecuting ==
    \A r \in DOMAIN request :
        pool[r].created =>
            /\ pool[r].concurrency = RequestedLevel(r)
            /\ Cardinality(Executing(r)) <= pool[r].concurrency
            /\ pool[r].idle + Cardinality(pool[r].busy) + pool[r].exited
                = pool[r].concurrency

\* C9 witness: every worker of a pool of 2 is executing a job while a third
\* job waits in the queue
C9_Witness ==
    \E r \in DOMAIN request :
        /\ pool[r].concurrency = 2
        /\ Cardinality(Executing(r)) = 2
        /\ pool[r].requests # <<>>

\* the run of the jobs one after the other in the order they were sent, as a
\* pool of concurrency 1 runs them, each collaborator answering as recorded:
\* the store at the end and the executions returned, in that order
RECURSIVE Sequential(_, _, _)
Sequential(jobs, w, out) ==
    IF jobs = <<>> THEN [w |-> w, out |-> out]
    ELSE LET j == Head(jobs)
             n == executeSteps([NewJob EXCEPT !.pc = "check"], w, j,
                               request[j[1]], job[j].answers)
         IN  Sequential(Tail(jobs), n.w, Append(out, n.js.execution))

Elements(seq) == {seq[k] : k \in 1..Len(seq)}

\* C8: when the pool of a batch has closed its response stream, whatever its
\* concurrency and whatever the interleaving of its workers, every job has
\* returned the execution it returns in the run of concurrency 1, the store
\* holds the records that run leaves, and the responses are those executions
\* in some order.
C8_ConcurrencyKeepsOutcomes ==
    \A r \in DOMAIN request :
        pool[r].created /\ pool[r].responsesClosed =>
            LET jobs == prepareTestRequests(r, h[r].work)
                s == Sequential(jobs, [st |-> Storage0, wr |-> [i \in {} |-> <<>>], sk |-> sinks], <<>>)
            IN
            /\ \A k \in 1..Len(jobs) : job[jobs[k]].execution = s.out[k]
            /\ storage = s.w.st
            /\ writes = s.w.wr
            /\ Len(pool[r].published) = Len(jobs)
            /\ {x.result : x \in Elements(pool[r].published)} = Elements(s.out)

\* C8 witness: a pool of concurrency 2 has run 3 jobs under one caller-supplied
\* name, one of them rejected as a duplicate, and published the responses in
\* another order than the jobs were sent
C8_Witness ==
    \E r \in DOMAIN request :
        /\ pool[r].concurrency = 2
        /\ pool[r].responsesClosed
        /\ Len(pool[r].published) = 3
        /\ request[r].name = GivenName
        /\ job[<<r, 1>>].execution.status = ExecutionStatusError
        /\ job[<<r, 2>>].execution.status = ExecutionStatusRunning
        /\ pool[r].published[1].result = job[<<r, 2>>].execution
        /\ pool[r].published[3].result = job[<<r, 1>>].execution

\* the two jobs of the two concurrent requests for test 1
RaceJobs == {<<r, 1>> : r \in DOMAIN request}

\* job j got its record into the store; it went through Pending, Running and
\* the status its dispatch returned
Accepted(j) == NewId(j) \in DOMAIN writes

\* the job was turned away: an Error execution, nothing stored under its id,
\* never started, no event, no dispatch
Rejected(j) ==
    /\ job[j].execution.status = ExecutionStatusError
    /\ NewId(j) \notin DOMAIN storage
    /\ NewId(j) \notin DOMAIN writes
    /\ job[j].dispatched = 0
    /\ job[j].events = <<>>

\* C3: of two jobs running concurrently under one caller-supplied name for one
\* test, in every interleaving of their lookups and inserts, the store never
\* holds two records for the (test, name) pair and at most one job is accepted;
\* a job that passed its lookup but lost the insert, like one that found the
\* name, ends rejected with nothing stored and without reaching Running; an
\* accepted job writes Pending, then Running, then the status its dispatch
\* returned (terminal when the dispatch is synchronous); and when no
\* collaborator fails and the name was free, exactly one job is accepted.
C3_OneWinnerPerName ==
    /\ Cardinality(Stored(GivenName, 1)) <= 1
    /\ Cardinality({j \in RaceJobs : Accepted(j)}) <= 1
    /\ \A j \in RaceJobs :
        /\ Finished(j) /\ ~Accepted(j) => Rejected(j)
        /\ ~Accepted(j) => job[j].dispatched = 0 /\ "start" \notin Elements(job[j].trace)
        /\ Accepted(j) =>
            /\ OldId(1) \notin DOMAIN storage
            /\ writes[NewId(j)][1].status = ExecutionStatusPending
            /\ Len(writes[NewId(j)]) >= 2 =>
                    writes[NewId(j)][2].status = ExecutionStatusRunning
            /\ Finished(j) /\ faults = 0 =>
                /\ Len(writes[NewId(j)]) = 3
                /\ job[j].dispatched = 1
                /\ storage[NewId(j)].status = job[j].execution.status
                /\ request[j[1]].sync => IsCompleted(storage[NewId(j)].status)
    /\ (\A j \in RaceJobs : Finished(j)) /\ faults = 0
        /\ OldId(1) \notin DOMAIN storage =>
            Cardinality({j \in RaceJobs : Accepted(j)}) = 1

\* C3 witness: both jobs found the name free, one insert won and its job ran
\* to a terminal status, the other insert was refused and its job rejected
C3_Witness ==
    \E a, b \in RaceJobs :
        /\ a # b
        /\ Finished(a) /\ Finished(b)
        /\ faults = 0
        /\ job[a].answers[1] = "ok" /\ job[b].answers = <<"ok", "ok">>
        /\ Accepted(a)
        /\ IsCompleted(storage[NewId(a)].status)
        /\ Rejected(b)

\* the handler of r has answered and its pool, if it made one, is at rest:
\* every job sent, taken, run and its response drained, all workers finished,
\* the response stream closed once
Terminated(r) ==
    /\ h[r].pc = "done"
    /\ pool[r].created =>
        /\ pool[r].toSend = <<>> /\ pool[r].requests = <<>> /\ pool[r].requestsClosed
        /\ pool[r].busy = {} /\ pool[r].idle = 0
        /\ pool[r].exited = pool[r].concurrency
        /\ pool[r].responses = <<>> /\ pool[r].responsesClosed
        /\ pool[r].closes = 1
        /\ Len(pool[r].published) = Len(h[r].work)
        /\ \A k \in 1..Len(h[r].work) : job[<<r, h[r].work[k]>>].pc = "done"

\* C10: with SendRequests and Run started as tasks of their own and the handler
\* draining the responses, whatever the batch size, the queue capacity and the
\* concurrency (1 or more), and with every work-function returning, the
\* response stream is never closed twice, nor before all workers finished, and
\* the system always comes to rest with every job consumed, the stream closed
\* once and the handler's drain loop left.
C10_AlwaysDrains ==
    /\ [](\A r \in DOMAIN request :
            /\ pool[r].closes <= 1
            /\ pool[r].responsesClosed =>
                    pool[r].closes = 1 /\ pool[r].exited = pool[r].concurrency
            /\ h[r].pc \in {"respond", "done"} /\ pool[r].created =>
                    pool[r].responsesClosed /\ Len(h[r].results) >= Len(h[r].work))
    /\ <>[](\A r \in DOMAIN request : Terminated(r))

\* C10 witness: a batch of 3 jobs went through a queue of capacity 1 and a
\* pool of concurrency 2, and the handler has answered
C10_Witness ==
    \E r \in DOMAIN request :
        /\ Terminated(r)
        /\ pool[r].created
        /\ pool[r].cap = 1
        /\ pool[r].concurrency = 2
        /\ Len(h[r].work) = 3
        /\ h[r].response.code = 200

\* the response of job j has been published
Published(j) ==
    \E k \in 1..Len(pool[j[1]].published) : pool[j[1]].published[k] = Response(job[j])

\* C11: once the context passed to Run is cancelled, no job that has not
\* started is started; a job that is executing stays with its worker, step by
\* step, until its work-function returns and its response is published (the
\* stream is not closed before); and every job that was executing when the
\* context was cancelled does get its response published and drained.
C11_CancelStopsAdmissionOnly ==
    /\ [][\A j \in DOMAIN job :
            pool[j[1]].cancelled /\ job[j].pc = "new" => job'[j].pc = "new"]_vars
    /\ [][\A j \in DOMAIN job :
            pool[j[1]].cancelled /\ j \in pool[j[1]].busy =>
                \/ j \in pool'[j[1]].busy /\ job'[j].pc # "new"
                \/ /\ job[j].pc = "return" /\ job'[j].pc = "done"
                   /\ pool'[j[1]].published
                        = Append(pool[j[1]].published, Response(job[j]))]_vars
    /\ [](\A r \in DOMAIN request :
            /\ pool[r].responsesClosed => pool[r].busy = {}
            /\ h[r].pc = "done" =>
                \A j \in pool[r].inFlight :
                    Published(j) /\ Count(h[r].results, job[j].execution) >= 1)
    /\ (\E r \in DOMAIN request : pool[r].cancelled)
            ~> (\A r \in DOMAIN request : \A j \in pool[r].inFlight :
                    job[j].pc = "done" /\ Published(j))

\* C11 witness: the context was cancelled while a job was executing and others
\* had not started; the handler has answered with the execution of that job
\* alone, and the others were never started
C11_Witness ==
    \E r \in DOMAIN request :
        /\ pool[r].cancelled
        /\ h[r].pc = "done"
        /\ Cardinality(pool[r].inFlight) = 1
        /\ \A j \in pool[r].inFlight :
            /\ job[j].pc = "done"
            /\ job[j].dispatched = 1
            /\ h[r].response.body = <<job[j].execution>>
        /\ Cardinality({t \in TestNames : job[<<r, t>>].pc = "new"}) = 2

\* what job j does and returns when every notification succeeds and the other
\* collaborators answer as they did
AllNotified(j) ==
    executeSteps([NewJob EXCEPT !.pc = "check"],
                 [st |-> Storage0, wr |-> [i \in {} |-> <<>>], sk |-> HealthySinks],
                 j, request[j[1]], job[j].answers)

\* C12 (as claimed): whatever fails while notifying, a job that has returned
\* has made the storage writes and the dispatch call, left the record and
\* returned the execution of the run in which every notification succeeds.
C12_Original ==
    \A j \in DOMAIN job :
        Finished(j) =>
            LET ref == AllNotified(j) IN
            /\ writes = ref.w.wr
            /\ storage = ref.w.st
            /\ job[j].dispatched = ref.js.dispatched
            /\ job[j].trace = ref.js.trace
            /\ job[j].execution = ref.js.execution

\* C13 (as claimed): every call of notifyEvents attempts the delivery to the
\* slack notifier and, when the webhooks could be listed, to every webhook
\* subscribed to the kind of the event, once each, whatever else fails.
C13_Original ==
    \A j \in DOMAIN job :
        \A k \in 1..Len(job[j].events) :
            LET ev == job[j].events[k] IN
            /\ ev.slack
            /\ sinks.lookup = "ok" => ev.webhooks = sinks.webhooks[ev.kind]
            /\ \A a, b \in 1..Len(ev.webhooks) : ev.webhooks[a] = ev.webhooks[b] => a = b

\* the store refused none of the writes of job j
StoreWritable(j) ==
    \A k \in 1..Len(job[j].answers) : job[j].answers[k] # "storageError"

\* C14 (as claimed): a job that has returned an Error execution after its
\* record was inserted, with the store accepting writes, has left the record in
\* terminal status Error, not in Pending or Running.
C14_Original ==
    \A j \in DOMAIN job :
        /\ Finished(j)
        /\ NewId(j) \in DOMAIN storage
        /\ job[j].execution.status = ExecutionStatusError
        /\ StoreWritable(j)
        => storage[NewId(j)].status = ExecutionStatusError

\* C15 (as claimed, for the trigger of an execution): a request to execute a
\* test id that does not exist is answered with not-found and has changed
\* nothing: no execution stored, no scheduler entry, nothing dispatched.
C15_Original ==
    \A r \in DOMAIN request :
        request[r].bodyOk /\ request[r].id = MissingTest /\ h[r].pc = "done" =>
            /\ h[r].response.code = 404
            /\ storage = Storage0 /\ DOMAIN writes = {}
            /\ \A t \in TestNames : cron[t] = 0 /\ job[<<r, t>>] = NewJob

\* C16 (as claimed, for the execution request): a request answered with a
\* client error (malformed body, unparsable concurrency) has changed nothing
\* by then: no scheduler registration, no stored execution, no dispatched job.
C16_Original ==
    \A r \in DOMAIN request :
        h[r].pc = "done" /\ h[r].response.code = 400 =>
            /\ \A t \in TestNames : cron[t] = 0
            /\ storage = Storage0 /\ DOMAIN writes = {}
            /\ \A t \in TestNames : job[<<r, t>>] = NewJob

\* the answer the secret lookup of job j got, "" if it was not reached
SecretAnswer(j) ==
    IF Len(job[j].answers) >= 3 THEN job[j].answers[3] ELSE ""

\* C17: a job whose secret lookup succeeds has HasSecrets true, one whose
\* lookup answers not-found has HasSecrets false, and both go on to the
\* dispatch (one call by the time the job returns); a job whose lookup fails
\* otherwise returns an Error execution ("can't get secrets") without any
\* dispatch; and in a batch every job returns what it returns when run alone,
\* whatever the lookups of the others answered.
C17_SecretProbe ==
    \A j \in DOMAIN job :
        /\ SecretAnswer(j) = "ok" =>
                job[j].hasSecrets /\ (Finished(j) => job[j].dispatched = 1)
        /\ SecretAnswer(j) = "secretNotFound" =>
                ~job[j].hasSecrets /\ (Finished(j) => job[j].dispatched = 1)
        /\ SecretAnswer(j) = "secretError" =>
                /\ Finished(j)
                /\ job[j].dispatched = 0
                /\ job[j].execution.status = ExecutionStatusError
                /\ job[j].execution.errorMessage = "can't get secrets"
        /\ Finished(j) => job[j].execution = Isolated(j)

\* C17 witness: in one batch, one job's secret lookup failed and the job
\* returned an Error execution undispatched, another's answered not-found and
\* a third's succeeded, and both of these were dispatched
C17_Witness ==
    \E r \in DOMAIN request :
        /\ h[r].pc = "done"
        /\ SecretAnswer(<<r, 1>>) = "secretError"
        /\ job[<<r, 1>>].dispatched = 0
        /\ SecretAnswer(<<r, 2>>) = "secretNotFound"
        /\ ~job[<<r, 2>>].hasSecrets /\ job[<<r, 2>>].dispatched = 1
        /\ SecretAnswer(<<r, 3>>) = "ok"
        /\ job[<<r, 3>>].hasSecrets /\ job[<<r, 3>>].dispatched = 1

\* a timestamp that was never set
Unset(t) == t = ZeroTime

C19_IsCompleted ==
    call.fn = "IsCompleted" /\ call.returned =>
        /\ call.args[1] \in {"success", "error"} => call.out = TRUE
        /\ call.args[1] \in {"queued", "pending", "running"} => call.out = FALSE
        /\ call.args[1] \in {"success", "error", "queued", "pending", "running"}

\* C19 witness: IsCompleted has returned false for a running execution
C19_Witness ==
    /\ call.fn = "IsCompleted" /\ call.returned
    /\ call.args = <<"running">>
    /\ call.out = FALSE

\* C20: the merged parameters have exactly the keys of the test's and the
\* request's parameters together; a key of the request carries the request's
\* value, a key of the test alone the test's value.
C20_MergeParams ==
    call.fn = "mergeParams" /\ call.returned =>
        LET test == call.args[1]
            req == call.args[2]
            merged == call.out
        IN
        /\ Keys(merged) = Keys(test) \cup Keys(req)
        /\ \A k \in Keys(req) : merged.kv[k] = req.kv[k]
        /\ \A k \in Keys(test) \ Keys(req) : merged.kv[k] = test.kv[k]

\* C20 witness: test and request both set k1, to different values, and the
\* test alone sets k2; the merge has the request's k1 and the test's k2
C20_Witness ==
    /\ call.fn = "mergeParams" /\ call.returned
    /\ Keys(call.args[1]) = {"k1", "k2"} /\ Keys(call.args[2]) = {"k1"}
    /\ call.args[1].kv["k1"] # call.args[2].kv["k1"]
    /\ call.out.kv["k1"] = call.args[2].kv["k1"]
    /\ call.out.kv["k2"] = call.args[1].kv["k2"]

\* C21 (as stated): mergeParams leaves both maps the caller passed unchanged.
\* Violated: a test-level map that is not nil is the map the request's keys
\* are written into.
C21_Original ==
    call.fn = "mergeParams" /\ call.returned => call.after = call.args

\* C22 (as stated): the execution metric of a job that has returned is 1 when
\* dispatch was invoked in it, on success and on error alike, and 0 when
\* dispatch was not invoked. Violated: after a dispatch whose result the store
\* refuses, executeTest returns before the metric.
C22_Original ==
    \A j \in DOMAIN job :
        Finished(j) => job[j].metric = job[j].dispatched

RECURSIVE EventsOf(_)
\* the server-push events of a sequence of log lines: per line, in order, the
\* data prefix, the line's JSON on one line, and a blank line
EventsOf(lines) ==
    IF lines = <<>> THEN <<>>
    ELSE <<"data: ", JSONOf(Head(lines)), "\n", "\n">> \o EventsOf(Tail(lines))

\* C23: the body written is exactly one event per log line received from the
\* channel, in the order the backend sent them, each event one JSON line
\* followed by a blank line, and all of it flushed; the stream ends only once
\* the backend has closed the channel and every line sent has been written;
\* when Logs returns an error nothing is written.
C23_LogStream ==
    stream.pc # "none" =>
        /\ stream.w = EventsOf(stream.received)
        /\ stream.pc # "open" => stream.flushed = Len(stream.w)
        /\ stream.pc = "ended" /\ ~stream.logsErr =>
                stream.closed /\ stream.chan = <<>> /\ stream.toSend = <<>>
        /\ stream.logsErr => stream.w = <<>> /\ stream.received = <<>>

\* C23 witness: the stream has ended after two different lines were written
\* as two events in the order sent
C23_Witness ==
    /\ stream.pc = "ended"
    /\ stream.received = <<"l2", "l1">>
    /\ Len(stream.w) = 8

\* the steps of executeTest in the order of the source
StepOrder ==
    <<"check", "insert", "started-event", "start", "secret", "dispatch",
      "update", "metric", "ended-event">>

\* both kinds of dispatch are the dispatch step
StepName(step) == IF step \in {"Execute", "ExecuteSync"} THEN "dispatch" ELSE step

\* the place of a step in that order
StepRank(step) == CHOOSE k \in 1..Len(StepOrder) : StepOrder[k] = StepName(step)

\* the writes of job j that the store accepted
WritesOf(j, op) ==
    IF NewId(j) \notin DOMAIN writes THEN {}
    ELSE {k \in 1..Len(writes[NewId(j)]) :
            writes[NewId(j)][k].op = op /\ writes[NewId(j)][k].by = j}

\* C24: in every run of executeTest the steps taken so far are steps of the
\* list check, insert, started event, start-timestamp write, secret probe,
\* dispatch, result write, metric, ended event, each at most once and in that
\* order; and a job that has dispatched has had its insert and its
\* start-timestamp write accepted by the store.
C24_StepOrder ==
    \A j \in DOMAIN job :
        LET tr == job[j].trace IN
        /\ \A k \in 1..Len(tr) : StepName(tr[k]) \in Elements(StepOrder)
        /\ \A k, l \in 1..Len(tr) : k < l => StepRank(tr[k]) < StepRank(tr[l])
        /\ job[j].dispatched > 0 =>
                /\ WritesOf(j, "Insert") # {}
                /\ WritesOf(j, "StartExecution") # {}
                /\ job[j].answers[2] = "ok"
                /\ job[j].answers[3] \in {"ok", "secretNotFound"}

\* C24 witness: a job has gone through all nine steps
C24_Witness ==
    \E j \in DOMAIN job :
        /\ Finished(j)
        /\ Len(job[j].trace) = Len(StepOrder)
        /\ job[j].trace[Len(StepOrder)] = "ended-event"
        /\ job[j].dispatched = 1

\* C25 (as stated): a pool the handler has created has a strictly positive
\* concurrency, 10 when the caller gave none and the caller's value otherwise,
\* and a handler that has answered has had every job it submitted executed.
\* Violated: a caller's value of zero or less is handed to New as it is.
C25_Original ==
    \A r \in DOMAIN request :
        /\ pool[r].created =>
            /\ pool[r].concurrency > 0
            /\ pool[r].concurrency = RequestedLevel(r)
        /\ h[r].pc = "done" => \A j \in PoolJobs(r) : Finished(j)

\* the step results that get a row: those of an ExecuteScript or a Delay step
HasRow(sr) == sr.step.kind \in {"executeScript", "delay"}

\* C26: Table gives one row per step result of kind ExecuteScript or Delay, in
\* step order; a row of a step result without an execution or without an
\* execution result has the status "no-execution-result" and an empty id and
\* error message; a Delay row always has an empty id and error message; the
\* other rows carry the execution's status, id and error message.
C26_Table ==
    call.fn = "Table" /\ call.returned =>
        LET shown == SelectSeq(call.args[1], HasRow)
            rows == call.out
        IN
        /\ Len(rows) = Len(shown)
        /\ \A k \in 1..Len(shown) :
            LET sr == shown[k]
                row == rows[k]
                bare == ~sr.execution.present \/ ~sr.execution.hasResult
            IN
            /\ Len(row) = 4
            /\ row[2] = sr.step.name
            /\ bare => row[1] = "no-execution-result" /\ row[3] = "" /\ row[4] = ""
            /\ sr.step.kind = "delay" => row[3] = "" /\ row[4] = ""
            /\ ~bare /\ sr.execution.hasStatus => row[1] = sr.execution.status
            /\ ~bare /\ sr.step.kind = "executeScript" =>
                    row[3] = sr.execution.id /\ row[4] = sr.execution.errorMessage

\* C26 witness: of two step results, a script step whose execution has
\* no result and a delay step, both got their row, in step order
C26_Witness ==
    /\ call.fn = "Table" /\ call.returned
    /\ Len(call.args[1]) = 2
    /\ call.args[1][1].step = [kind |-> "executeScript", name |-> "s2"]
    /\ call.args[1][1].execution.present /\ ~call.args[1][1].execution.hasResult
    /\ call.args[1][2].step = [kind |-> "delay", name |-> "s1"]
    /\ call.out = <<<<"no-execution-result", "s2", "", "">>,
                    <<"no-execution-result", "s1", "", "">>>>

\* C29: NewStartedTestExecution returns an execution in status Pending whose
\* step results are one queued result per step of the test, the Before steps
\* first, then the Steps, then the After steps, as many as the three lists
\* hold together.
C29_NewStartedTestExecution ==
    call.fn = "NewStartedTestExecution" /\ call.returned =>
        LET test == call.args[1]
            nb == Len(test.before)
            ns == Len(test.steps)
            na == Len(test.after)
            results == call.out.stepResults
        IN
        /\ call.out.status = "pending"
        /\ Len(results) = nb + ns + na
        /\ \A k \in 1..Len(results) : results[k].status = "queued"
        /\ \A k \in 1..nb : results[k].step = test.before[k]
        /\ \A k \in 1..ns : results[nb + k].step = test.steps[k]
        /\ \A k \in 1..na : results[nb + ns + k].step = test.after[k]

\* C29 witness: a test with steps in all three lists has its step results in
\* the order before, steps, after
C29_Witness ==
    /\ call.fn = "NewStartedTestExecution" /\ call.returned
    /\ Len(call.args[1].before) = 1 /\ Len(call.args[1].steps) = 2
    /\ Len(call.args[1].after) = 1
    /\ call.args[1].steps[1] # call.args[1].after[1]
    /\ Len(call.out.stepResults) = 4
    /\ call.out.stepResults[4].step = call.args[1].after[1]

\* the kinds of the events job j has emitted, in the order emitted
EventKinds(j) == [k \in 1..Len(job[j].events) |-> job[j].events[k].kind]

\* job j has returned, having taken the step, and its last answer was ans
FailedAt(j, step, ans) ==
    /\ Finished(j)
    /\ job[j].answers # <<>>
    /\ job[j].answers[Len(job[j].answers)] = ans
    /\ job[j].trace # <<>>
    /\ step \in Elements(job[j].trace)

\* C27: a job that has emitted the "test started" event and has returned has
\* emitted after it exactly one "test ended" event, on every path; until it
\* returns it has emitted no "test ended" event; a job that returned before
\* the started event has emitted no event.
C27_StartedThenEnded ==
    \A j \in DOMAIN job :
        /\ Finished(j) /\ "started-event" \in Elements(job[j].trace) =>
                EventKinds(j) = <<"start-test", "end-test">>
        /\ Finished(j) /\ "started-event" \notin Elements(job[j].trace) =>
                EventKinds(j) = <<>>
        /\ ~Finished(j) => EventKinds(j) \in {<<>>, <<"start-test">>}
        /\ ~Finished(j) =>
                (EventKinds(j) = <<"start-test">>
                    <=> "started-event" \in Elements(job[j].trace))

\* C27 witness: two jobs of a batch have returned, one after a dispatch error
\* with both events emitted, one before the started event with none
C27_Witness ==
    \E j, i \in DOMAIN job :
        /\ FailedAt(j, "metric", "ok")
        /\ job[j].err
        /\ EventKinds(j) = <<"start-test", "end-test">>
        /\ Finished(i)
        /\ "insert" \notin Elements(job[i].trace)
        /\ job[i].events = <<>>

\* job j was turned away by the uniqueness check: it has returned the stored
\* execution of its name
RejectedAsDuplicate(js, j) ==
    js.pc \in {"return", "done"} /\ js.execution.id = OldId(j[2])

\* C28: the step of executeTest that rejects a duplicate name changes nothing
\* but the job's own answer: storage, the write log and the scheduler are as
\* before, the job has emitted no event, dispatched nothing and counted no
\* metric, and the stored execution of that name is the record it was; and a
\* job whose name is taken, and whose lookup answered, is rejected at that
\* step, before any insert.
C28_DuplicateRejectionFrame ==
    /\ [][\A j \in DOMAIN job :
            ~RejectedAsDuplicate(job[j], j) /\ RejectedAsDuplicate(job'[j], j) =>
                /\ storage' = storage
                /\ writes' = writes
                /\ cron' = cron
                /\ job'[j].events = <<>>
                /\ job'[j].dispatched = 0
                /\ job'[j].metric = 0
                /\ job'[j].trace = <<"check">>
                /\ storage'[OldId(j[2])] = OldExecution(j[2])]_vars
    /\ [](\A j \in DOMAIN job :
            /\ RejectedAsDuplicate(job[j], j) =>
                /\ NewId(j) \notin DOMAIN storage
                /\ NewId(j) \notin DOMAIN writes
                /\ OldId(j[2]) \notin DOMAIN writes
                /\ storage[OldId(j[2])] = OldExecution(j[2])
                /\ job[j].events = <<>> /\ job[j].dispatched = 0 /\ job[j].metric = 0
            /\ NameTaken(j) /\ Finished(j) /\ job[j].answers[1] = "ok" =>
                RejectedAsDuplicate(job[j], j))

\* C28 witness: in a batch, the job of test 1 was rejected as a duplicate and
\* its response published, while another job has stored its own record
C28_Witness ==
    \E j, i \in DOMAIN job :
        /\ job[j].pc = "done"
        /\ RejectedAsDuplicate(job[j], j)
        /\ storage[OldId(j[2])] = OldExecution(j[2])
        /\ i # j
        /\ NewId(i) \in DOMAIN storage

Spec == Init /\ [][Next]_vars

SpecRace == InitRace /\ [][Next]_vars

\* the handler, SendRequests, Run and each worker loop are goroutines of their
\* own (executions.go:110-111) and every call of a work-function returns: the
\* scheduler lets each goroutine that can step do so. Weak fairness of every
\* single action implies weak fairness of Next, which is all that is assumed.
Fairness == WF_vars(Next)

NextCancel == Next \/ \E r \in DOMAIN request : Cancel(r)

\* the goroutines of the program are scheduled as in Fairness; nothing is
\* assumed about when, or whether, the context is cancelled
SpecCancel == InitCancel /\ [][NextCancel]_vars /\ WF_vars(Next)

SpecNotify == InitNotify /\ [][Next]_vars

SpecLevels == InitLevels /\ [][Next]_vars

NextLogs == LogsOpen \/ LogsSend \/ LogsClose \/ LogsWrite \/ LogsEnd

SpecLogs == InitLogs /\ [][NextLogs]_vars

NextCalls ==
    \/ CallIsCompleted
    \/ CallCalculateDuration
    \/ CallMergeParams
    \/ CallTable
    \/ CallNewStartedTestExecution

SpecCalls == InitCalls /\ [][NextCalls]_vars

SpecFair == InitSizes /\ [][Next]_vars /\ Fairness

====
